---------------------------- MODULE Spec2Model ----------------------------
(***************************************************************************)
(* Pet-adoption pipeline: the transform (update_clean_csvs_db_aware) that  *)
(* turns one raw snapshot into four clean tables, and the incremental      *)
(* loader (load_incremental) that upserts them into the destination and    *)
(* records the snapshot in the loaded_snapshots ledger.                    *)
(*                                                                         *)
(* Values.  A text cell is a sequence of one-character strings; the pandas *)
(* missing value is NaN.  An identifier cell is a tuple of integers: a     *)
(* uuid is <<run, k>> (the k-th uuid4() call of transform run `run`; pet   *)
(* ids come from the generator, run 0), NULL is <<>>, and the text that    *)
(* astype(str) makes of a missing identifier is NoneStr.  A raw date cell  *)
(* is a string; a parsed date is an integer yyyymmdd, NaT when missing,    *)
(* and NoneDate once sent to the database as NULL.  The columns age,       *)
(* gender, size and date_arrived are carried through unchanged by every    *)
(* step and are left out of the rows.                                      *)
(***************************************************************************)
EXTENDS Integers, Sequences, FiniteSets, TLC

\* ------------------------------------------------------------------ bounds

\* Loader invocations (load_incremental calls) in one behaviour.
MaxRuns == 2

\* Transform invocations (update_clean_csvs_db_aware calls) in one behaviour.
MaxTransforms == 2

\* Longest DataFrame passed to a direct call of upsert_table.
MaxRows == 2

\* Most records in a raw batch passed to a direct call of the transform.
MaxBatch == 2

\* The concurrent loader invocations: a new invocation takes the first free slot.
LoaderSlots == <<"A", "B">>
Loaders == {LoaderSlots[i] : i \in DOMAIN LoaderSlots}

\* ------------------------------------------------------------------ values

NaN == <<"NaN">>
NULL == <<>>
NoneStr == <<-1>>
NaT == 0

Range(s) == {s[i] : i \in DOMAIN s}

\* Variant of Unique: repeated values are kept.
KeepAll(s) == s

\* pandas unique() / drop_duplicates(): first occurrences, in order.
RECURSIVE Unique(_)
Unique(s) ==
    IF s = <<>> THEN <<>>
    ELSE LET init == Unique(SubSeq(s, 1, Len(s) - 1))
             last == s[Len(s)]
         IN  IF last \in Range(init) THEN init ELSE Append(init, last)

\* ------------------------------------------------------------------ text

LowerChars == <<"a", "b", "c", "d", "e", "g", "i", "l", "n", "o", "p", "t", "u", "v", "x">>
UpperChars == <<"A", "B", "C", "D", "E", "G", "I", "L", "N", "O", "P", "T", "U", "V", "X">>

IsLower(c) == c \in Range(LowerChars)
IsUpper(c) == c \in Range(UpperChars)
IsCased(c) == IsLower(c) \/ IsUpper(c)
IsSpace(c) == c = " "

IndexIn(c, s) == CHOOSE i \in DOMAIN s : s[i] = c
ToUpper(c) == IF IsLower(c) THEN UpperChars[IndexIn(c, LowerChars)] ELSE c
ToLower(c) == IF IsUpper(c) THEN LowerChars[IndexIn(c, UpperChars)] ELSE c

\* Code-point order of the characters in use: space < upper case < lower case.
CharRank(c) ==
    IF IsSpace(c) THEN 0
    ELSE IF IsUpper(c) THEN IndexIn(c, UpperChars)
    ELSE IF IsLower(c) THEN Len(UpperChars) + IndexIn(c, LowerChars)
    ELSE Len(UpperChars) + Len(LowerChars) + 1

\* Python's < on str.
RECURSIVE StrLess(_, _)
StrLess(a, b) ==
    IF b = <<>> THEN FALSE
    ELSE IF a = <<>> THEN TRUE
    ELSE IF CharRank(Head(a)) # CharRank(Head(b)) THEN CharRank(Head(a)) < CharRank(Head(b))
    ELSE StrLess(Tail(a), Tail(b))

\* Series.astype(str): a missing cell becomes the text "nan".
AsStr(v) == IF v = NaN THEN <<"n", "a", "n">> ELSE v

RECURSIVE LStrip(_)
LStrip(s) == IF s # <<>> /\ IsSpace(Head(s)) THEN LStrip(Tail(s)) ELSE s

RECURSIVE RStrip(_)
RStrip(s) ==
    IF s # <<>> /\ IsSpace(s[Len(s)]) THEN RStrip(SubSeq(s, 1, Len(s) - 1)) ELSE s

\* str.strip()
Strip(s) == RStrip(LStrip(s))

\* str.title(): a cased character is upper-cased when it follows an uncased
\* one (or starts the text) and lower-cased otherwise.
Title(s) ==
    [i \in DOMAIN s |->
        IF ~IsCased(s[i]) THEN s[i]
        ELSE IF i > 1 /\ IsCased(s[i - 1]) THEN ToLower(s[i]) ELSE ToUpper(s[i])]

Adopted == <<"A", "d", "o", "p", "t", "e", "d">>

\* ------------------------------------------------------------------ dates

\* pd.to_datetime(series, errors="coerce").dt.date on the date texts in use:
\* an ISO date parses, anything else (empty cell, free text) is NaT.
safe_to_date(s) ==
    CASE s = "2025-06-01" -> 20250601
      [] s = "2025-06-02" -> 20250602
      [] s = "2025-05-20" -> 20250520
      [] OTHER -> NaT

\* ------------------------------------------------------------------ raw folder

RequiredCols ==
    {"pet_id", "name", "age", "gender", "size", "status", "date_arrived",
     "adopted_date", "type", "breed", "shelter_name", "city", "state", "snapshot_date"}

Eden == <<"E", "d", "e", "n">>
Bonn == <<"B", "o", "n", "n">>
Leon == <<"L", "e", "o", "n">>
NV == <<"N", "V">>
Pug == <<"P", "u", "g">>
Lab == <<"L", "a", "b">>

\* One raw record.  name stands for the columns the transform only passes
\* through (name, age, gender, size, date_arrived).
RawRow(pid, nm, st, ad, ty, br, city, sd) ==
    [pet_id |-> pid, name |-> nm, status |-> st, adopted_date |-> ad, type |-> ty,
     breed |-> br, shelter_name |-> Eden, city |-> city, state |-> NV,
     snapshot_date |-> sd]

\* The snapshots in raw/, in the lexicographic order of their names.
RawFiles ==
    <<"animals_snapshot_0.csv", "animals_snapshot_1.csv",
      "animals_snapshot_2.csv", "animals_snapshot_3.csv">>

\* raw/<file> as pd.read_csv returns it: the columns present and the records.
\*   _0: schema drift, the breed column is missing
\*   _1: one date; untidy casing and spacing; adopted_date/status conflicts
\*   _2: two different snapshot dates in one batch
\*   _3: a later snapshot of an overlapping population, one unparsable date
RawFolder ==
    [f \in Range(RawFiles) |->
        CASE f = "animals_snapshot_0.csv" ->
               [cols |-> RequiredCols \ {"breed"},
                rows |-> <<RawRow(<<0, 1>>, "Rex", <<"p", "e", "n", "d", "i", "n", "g">>, "",
                                  <<"D", "o", "g">>, NaN, Bonn, "2025-05-20")>>]
          [] f = "animals_snapshot_1.csv" ->
               [cols |-> RequiredCols,
                rows |-> <<RawRow(<<0, 1>>, "Rex", <<"p", "e", "n", "d", "i", "n", "g">>,
                                  "2025-05-20", <<" ", "d", "o", "g">>, Pug, Bonn, "2025-06-01"),
                           RawRow(<<0, 2>>, "Tom", <<"a", "d", "o", "p", "t", "e", "d", " ">>,
                                  "", <<"C", "A", "T">>, Pug, Leon, "2025-06-01"),
                           RawRow(<<0, 3>>, "Bo", <<"A", "v", "a", "i", "l", "a", "b", "l", "e">>,
                                  "", <<"D", "o", "g">>, <<"P", "u", "g", " ">>, Bonn,
                                  "2025-06-01")>>]
          [] f = "animals_snapshot_2.csv" ->
               [cols |-> RequiredCols,
                rows |-> <<RawRow(<<0, 5>>, "Ace", <<"P", "e", "n", "d", "i", "n", "g">>, "",
                                  <<"D", "o", "g">>, Lab, Bonn, "2025-06-01"),
                           RawRow(<<0, 6>>, "Pip", <<"P", "e", "n", "d", "i", "n", "g">>, "",
                                  <<"D", "o", "g">>, Lab, Bonn, "2025-06-02")>>]
          [] OTHER ->
               [cols |-> RequiredCols,
                rows |-> <<RawRow(<<0, 1>>, "Rex", Adopted, "2025-05-20",
                                  <<"D", "o", "g">>, Pug, Bonn, "2025-06-02"),
                           RawRow(<<0, 4>>, "Lee", <<"A", "v", "a", "i", "l", "a", "b", "l", "e">>,
                                  "", <<"D", "o", "g">>, Lab, Bonn, "n/a")>>]]

\* What the caller may pass as --snapshot: nothing, a file of raw/, or a path
\* that does not exist.
NoArg == "(latest)"
AbsentPath == "raw/absent.csv"
SnapshotArgs == Range(RawFiles) \cup {NoArg, AbsentPath}

\* ------------------------------------------------------------------ transform

\* _pick_snapshot: the named file, else the last of the sorted glob; a record
\* [ok, file], ok = FALSE for FileNotFoundError.
pick_snapshot(arg) ==
    IF arg # NoArg
    THEN [ok |-> arg \in Range(RawFiles), file |-> arg]
    ELSE [ok |-> RawFiles # <<>>, file |-> RawFiles[Len(RawFiles)]]

\* Variant of require_columns: the columns are not checked.
no_column_check(cols) == TRUE

\* _require_columns: TRUE when no required column is missing.
require_columns(cols) == {c \in RequiredCols : c \notin cols} = {}

\* Series.astype(str) on an identifier column.
AsStrId(v) == IF v = NULL THEN NoneStr ELSE v

\* Variant of ForceAdopted: the status is left as it was normalized.
KeepStatus(status, adopted) == status

\* Rule 1 (lines 101-109): an adopted_date forces status = Adopted.
ForceAdopted(status, adopted) ==
    IF adopted # NaT /\ status # Adopted THEN Adopted ELSE status

\* Variant of Backfill: the adopted_date is left as it was parsed.
KeepDate(status, adopted, sdate) == adopted

\* Rule 2 (lines 111-121): status Adopted without a date takes the snapshot date.
Backfill(status, adopted, sdate) ==
    IF status = Adopted /\ adopted = NaT THEN sdate ELSE adopted

\* apply_data_quality_rules on one record (every step of it is row-wise).
DQRow(r) ==
    LET adopted0 == safe_to_date(r.adopted_date)
        sdate    == safe_to_date(r.snapshot_date)
        status0  == Title(Strip(AsStr(r.status)))
        status1  == ForceAdopted(status0, adopted0)
        adopted1 == Backfill(status1, adopted0, sdate)
    IN  [pet_id |-> AsStrId(r.pet_id), name |-> r.name, status |-> status1,
         adopted_date |-> adopted1, type |-> Title(Strip(AsStr(r.type))),
         breed |-> Strip(AsStr(r.breed)), shelter_name |-> Strip(AsStr(r.shelter_name)),
         city |-> Strip(AsStr(r.city)), state |-> Strip(AsStr(r.state)),
         snapshot_date |-> sdate]

apply_data_quality_rules(rows) == [i \in DOMAIN rows |-> DQRow(rows[i])]

\* Lexicographic < of two records on the text columns cols.
RECURSIVE RowLess(_, _, _)
RowLess(a, b, cols) ==
    IF cols = <<>> THEN FALSE
    ELSE IF a[Head(cols)] # b[Head(cols)] THEN StrLess(a[Head(cols)], b[Head(cols)])
    ELSE RowLess(a, b, Tail(cols))

RECURSIVE Insert(_, _, _)
Insert(sorted, r, cols) ==
    IF sorted = <<>> THEN <<r>>
    ELSE IF RowLess(r, Head(sorted), cols) THEN <<r>> \o sorted
    ELSE <<Head(sorted)>> \o Insert(Tail(sorted), r, cols)

\* DataFrame.sort_values(cols)
RECURSIVE sort_values(_, _)
sort_values(rows, cols) ==
    IF rows = <<>> THEN <<>>
    ELSE Insert(sort_values(SubSeq(rows, 1, Len(rows) - 1), cols), rows[Len(rows)], cols)

\* Variant of merge_left: no record of `right` ever matches.
left_only(left, right, on, nulls) == [i \in DOMAIN left |-> left[i] @@ nulls]

\* left.merge(right, on=on, how="left"): every left record once per matching
\* right record, and once with `nulls` when none matches.
RECURSIVE merge_left(_, _, _, _)
merge_left(left, right, on, nulls) ==
    IF left = <<>> THEN <<>>
    ELSE LET l == Head(left)
             Match(r) == \A c \in on : r[c] = l[c]
             hits == SelectSeq(right, Match)
         IN  (IF hits = <<>> THEN <<l @@ nulls>>
              ELSE [i \in DOMAIN hits |-> l @@ hits[i]])
             \o merge_left(Tail(left), right, on, nulls)

\* Variant of Uuid: every call of a run returns the same value.
SameId(run, k) == <<run, 1>>

\* The k-th uuid4() of transform run `run`.
Uuid(run, k) == <<run, k>>

\* types_df (lines 155-160)
TypesDf(pets, run) ==
    LET names  == Unique([i \in DOMAIN pets |-> [type |-> pets[i].type]])
        kept   == SelectSeq(names, LAMBDA r : r.type # NaN)
        sorted == sort_values(kept, <<"type">>)
    IN  [i \in DOMAIN sorted |-> [type |-> sorted[i].type, type_id |-> Uuid(run, i)]]

\* breeds_df (lines 163-169)
BreedsDf(pets, run) ==
    LET types  == TypesDf(pets, run)
        pairs  == Unique([i \in DOMAIN pets |-> [type |-> pets[i].type, breed |-> pets[i].breed]])
        kept   == SelectSeq(pairs, LAMBDA r : r.type # NaN /\ r.breed # NaN)
        joined == merge_left(kept, types, {"type"}, [type_id |-> NULL])
        sorted == sort_values(joined, <<"type", "breed">>)
    IN  [i \in DOMAIN sorted |->
            [type |-> sorted[i].type, breed |-> sorted[i].breed,
             type_id |-> sorted[i].type_id, breed_id |-> Uuid(run, Len(types) + i)]]

\* shelters_df (lines 172-177)
SheltersDf(pets, run) ==
    LET tuples == Unique([i \in DOMAIN pets |->
                            [shelter_name |-> pets[i].shelter_name, city |-> pets[i].city,
                             state |-> pets[i].state]])
        base   == Len(TypesDf(pets, run)) + Len(BreedsDf(pets, run))
    IN  [i \in DOMAIN tuples |->
            [shelter_name |-> tuples[i].shelter_name, city |-> tuples[i].city,
             state |-> tuples[i].state, shelter_id |-> Uuid(run, base + i)]]

\* animals_df (lines 183-213)
AnimalsDf(pets, run, snapshot_file) ==
    LET m1 == merge_left(pets, TypesDf(pets, run), {"type"}, [type_id |-> NULL])
        bd == BreedsDf(pets, run)
        m2 == merge_left(m1,
                         [i \in DOMAIN bd |-> [breed |-> bd[i].breed, type_id |-> bd[i].type_id,
                                               breed_id |-> bd[i].breed_id]],
                         {"breed", "type_id"}, [breed_id |-> NULL])
        m3 == merge_left(m2, SheltersDf(pets, run), {"shelter_name", "city", "state"},
                         [shelter_id |-> NULL])
    IN  [i \in DOMAIN m3 |->
            [pet_id |-> m3[i].pet_id, name |-> m3[i].name, status |-> m3[i].status,
             adopted_date |-> m3[i].adopted_date, type_id |-> m3[i].type_id,
             breed_id |-> m3[i].breed_id, shelter_id |-> m3[i].shelter_id,
             snapshot_date |-> m3[i].snapshot_date, snapshot_file |-> snapshot_file]]

\* The four tables as save_clean receives them (lines 161, 170, 178, 215),
\* built in transform run `run` from the records `rows` read from `file`.
BuildTable(name, rows, file, run) ==
    LET pets == apply_data_quality_rules(rows)
        ty == TypesDf(pets, run)
        bd == BreedsDf(pets, run)
    IN  CASE name = "pet_types" -> ty
          [] name = "breeds" ->
               [i \in DOMAIN bd |-> [breed |-> bd[i].breed, breed_id |-> bd[i].breed_id,
                                     type_id |-> bd[i].type_id]]
          [] name = "shelters" -> SheltersDf(pets, run)
          [] OTHER -> AnimalsDf(pets, run, file)

\* The tables of transform run `run` over the snapshot raw/<file>.
CleanTable(name, file, run) == BuildTable(name, RawFolder[file].rows, file, run)


\* ------------------------------------------------------------------ destination

\* Columns whose name ends in "_id" (ensure_str_ids, line 80).
IdCols == {"pet_id", "type_id", "breed_id", "shelter_id"}

\* ensure_str_ids: astype(str) on every identifier column of every record.
ensure_str_ids(rows) ==
    [i \in DOMAIN rows |->
        [c \in DOMAIN rows[i] |-> IF c \in IdCols THEN AsStrId(rows[i][c]) ELSE rows[i][c]]]

\* Columns holding dates, and columns holding text cells.
DateCols == {"adopted_date", "snapshot_date"}
TextCols == {"type", "breed", "shelter_name", "city", "state", "status"}

\* None as psycopg2 sends it for a date cell (SQL NULL of a DATE column).
NoneDate == -1

\* df_to_python_records: numpy scalars become Python values and NaN/NaT become
\* None; a text made by astype(str) is no longer missing and stays as it is.
df_to_python_records(rows) ==
    [i \in DOMAIN rows |->
        [c \in DOMAIN rows[i] |->
            IF c \in DateCols THEN (IF rows[i][c] = NaT THEN NoneDate ELSE rows[i][c])
            ELSE IF c \in TextCols THEN (IF rows[i][c] = NaN THEN NULL ELSE rows[i][c])
            ELSE rows[i][c]]]

\* Variant of UpsertRow: the table is emptied before the row is inserted.
TruncateInsert(T, r, key) == {r}

\* Variant of UpsertRow: ON CONFLICT DO NOTHING whatever the columns.
InsertOrIgnore(T, r, key) ==
    IF \E t \in T : \A k \in key : t[k] = r[k] THEN T ELSE T \cup {r}

\* One INSERT ... ON CONFLICT (key) statement against the rows of a table:
\* DO NOTHING when there is no column to update, DO UPDATE SET otherwise.
UpsertRow(T, r, key) ==
    LET update_cols == DOMAIN r \ key
        hit == {t \in T : \A k \in key : t[k] = r[k]}
    IN  IF hit = {} THEN T \cup {r}
        ELSE IF update_cols = {} THEN T
        ELSE (T \ hit) \cup
             {[c \in DOMAIN t |-> IF c \in update_cols THEN r[c] ELSE t[c]] : t \in hit}

RECURSIVE UpsertAll(_, _, _)
UpsertAll(T, records, key) ==
    IF records = <<>> THEN T
    ELSE UpsertAll(UpsertRow(T, Head(records), key), Tail(records), key)

\* upsert_table: the rows of the table after the call succeeds.
upsert_table(T, rows, conflict_cols) ==
    IF rows = <<>> THEN T
    ELSE UpsertAll(T, df_to_python_records(ensure_str_ids(rows)), conflict_cols)

TableNames == {"pet_types", "breeds", "shelters", "animals"}

\* The conflict key load_incremental passes for each table (lines 179-191).
ConflictCols(table) ==
    CASE table = "pet_types" -> {"type_id"}
      [] table = "breeds" -> {"breed_id"}
      [] table = "shelters" -> {"shelter_id"}
      [] OTHER -> {"pet_id"}

\* The columns of each destination table as reset_db creates it; animals has
\* snapshot_file only where the schema was extended for this loader.
TableCols(table, hasFileCol) ==
    CASE table = "pet_types" -> {"type_id", "type"}
      [] table = "breeds" -> {"breed_id", "breed", "type_id"}
      [] table = "shelters" -> {"shelter_id", "shelter_name", "city", "state"}
      [] OTHER -> {"pet_id", "name", "status", "adopted_date", "type_id", "breed_id",
                   "shelter_id", "snapshot_date"}
                  \cup (IF hasFileCol THEN {"snapshot_file"} ELSE {})

\* TEXT NOT NULL columns of reset_db's tables.
NotNullCols(table) ==
    CASE table = "pet_types" -> {"type"}
      [] table = "breeds" -> {"breed"}
      [] table = "shelters" -> {"shelter_name"}
      [] OTHER -> {}

\* Variant of ForeignKeys: tables created without REFERENCES clauses.
NoForeignKeys(table) == {}

\* REFERENCES clauses of reset_db's tables: column -> <<table, column>>.
ForeignKeys(table) ==
    CASE table = "breeds" -> {<<"type_id", "pet_types">>}
      [] table = "animals" -> {<<"type_id", "pet_types">>, <<"breed_id", "breeds">>,
                               <<"shelter_id", "shelters">>}
      [] OTHER -> {}

KeyOf(table) == CHOOSE c \in ConflictCols(table) : TRUE

\* A value a UUID column accepts: a uuid text or NULL.
IsUuidOrNull(v) == v # NoneStr

\* Whether the destination accepts record r for `table`: the columns exist, the
\* uuid columns parse, NOT NULL and the primary key hold and every foreign key
\* finds its row.
Accepts(d, hasFileCol, table, r) ==
    /\ DOMAIN r \subseteq TableCols(table, hasFileCol)
    /\ \A c \in DOMAIN r \cap IdCols : IsUuidOrNull(r[c])
    /\ r[KeyOf(table)] # NULL
    /\ \A c \in NotNullCols(table) : c \in DOMAIN r /\ r[c] # NULL
    /\ \A fk \in ForeignKeys(table) :
          fk[1] \in DOMAIN r /\ r[fk[1]] # NULL
             => \E t \in d[fk[2]] : t[KeyOf(fk[2])] = r[fk[1]]

\* The SQL NULL a column takes when an INSERT names no value for it.
SqlNull(c) ==
    IF c \in DateCols THEN NoneDate ELSE IF c \in {"name", "snapshot_file"} THEN "" ELSE NULL

\* A row as the table stores it: the columns the INSERT did not name are NULL.
Stored(r, cols) == [c \in cols |-> IF c \in DOMAIN r THEN r[c] ELSE SqlNull(c)]

\* execute_batch of upsert_table against the destination (one page, one
\* implicit transaction): [ok, rows]; any rejected statement rolls the page back.
ExecUpsertOn(d, hasFileCol, table, rows, conflict_cols) ==
    LET records == df_to_python_records(ensure_str_ids(rows))
    IN  IF \A i \in DOMAIN records : Accepts(d, hasFileCol, table, records[i])
        THEN [ok |-> TRUE,
              rows |-> {Stored(r, TableCols(table, hasFileCol)) :
                           r \in upsert_table(d[table], rows, conflict_cols)}]
        ELSE [ok |-> FALSE, rows |-> d[table]]

\* The call as load_incremental makes it, with the table's primary key.
ExecUpsert(d, hasFileCol, table, rows) ==
    ExecUpsertOn(d, hasFileCol, table, rows, ConflictCols(table))

\* Variant of snapshot_already_loaded: the ledger is never consulted.
never_loaded(led, f) == FALSE

\* snapshot_already_loaded: SELECT 1 FROM loaded_snapshots WHERE snapshot_file = f
snapshot_already_loaded(led, f) == \E r \in led : r.snapshot_file = f

\* Variant of mark_snapshot_loaded: a plain INSERT into a ledger without its key.
insert_snapshot(led, f, d, now) ==
    led \cup {[snapshot_file |-> f, snapshot_date |-> d, loaded_at |-> now]}

\* mark_snapshot_loaded: INSERT ... ON CONFLICT (snapshot_file) DO NOTHING
mark_snapshot_loaded(led, f, d, now) ==
    IF \E r \in led : r.snapshot_file = f THEN led
    ELSE led \cup {[snapshot_file |-> f, snapshot_date |-> d, loaded_at |-> now]}

\* Variant of ensure_loaded_snapshots_table: DROP TABLE, then CREATE TABLE.
recreate_loaded_snapshots_table(lg) == [exists |-> TRUE, rows |-> {}]

\* ensure_loaded_snapshots_table: CREATE TABLE IF NOT EXISTS
ensure_loaded_snapshots_table(lg) ==
    IF lg.exists THEN lg ELSE [exists |-> TRUE, rows |-> {}]

\* Variant of LoadOrder: shelters first.
SheltersFirst == <<"shelters", "pet_types", "breeds", "animals">>

\* The order in which load_incremental upserts the tables (lines 177-192).
LoadOrder == <<"pet_types", "breeds", "shelters", "animals">>

\* The order in which the transform calls save_clean, and in which save_clean
\* writes the two serializations (lines 47-48, 161, 170, 178, 215).
SaveOrder ==
    <<[name |-> "pet_types", fmt |-> "csv"], [name |-> "pet_types", fmt |-> "parquet"],
      [name |-> "breeds", fmt |-> "csv"], [name |-> "breeds", fmt |-> "parquet"],
      [name |-> "shelters", fmt |-> "csv"], [name |-> "shelters", fmt |-> "parquet"],
      [name |-> "animals", fmt |-> "csv"], [name |-> "animals", fmt |-> "parquet"]>>

\* ------------------------------------------------------------------ state

VARIABLES
    call,        \* the last direct call of upsert_table: [fn, ...] (UpsertSpec only)
    clean,       \* clean_parquet/: name -> fmt -> [present, run, rows]
    t,           \* the transform process: [pc, run, file, step]
    db,          \* destination tables: name -> set of rows
    ledger,      \* loaded_snapshots: [exists, rows]
    withSnapshotFile,  \* whether animals has the snapshot_file column
    clock,       \* ledger inserts executed so far (NOW() of the next one)
    l,           \* loader invocations: slot -> [pc, animals_df, snapshot_file, snapshot_date,
                 \*   idx, written (tables written so far), checked_at (clock at the ledger check)]
    runs,        \* loader invocations started so far
    prev         \* history: destination at the last completed invocation, while nothing else has run

vars == <<call, clean, t, db, ledger, withSnapshotFile, clock, l, runs, prev>>

MissingFile == [present |-> FALSE, run |-> 0, rows |-> <<>>]
EmptyDb == [n \in TableNames |-> {}]
NoPrev ==
    [valid |-> FALSE, started |-> FALSE, n |-> 0, file |-> "", db |-> EmptyDb, ledger |-> {}]
RestPcs == {"idle", "skipped", "loaded", "failed"}
IdleLoader ==
    [pc |-> "idle", animals_df |-> <<>>, snapshot_file |-> "", snapshot_date |-> NaT,
     idx |-> 0, written |-> <<>>, checked_at |-> 0]

Active(p) == l[p].pc \notin RestPcs
TransformRest == t.pc \in {"idle", "done", "failed"}

NoCall == [fn |-> "none"]

\* The pipeline before its first run: an empty clean folder and the destination
\* as provisioned, without the ledger table (the loader creates it).
PipelineInit ==
    /\ clean = [n \in TableNames |-> [csv |-> MissingFile, parquet |-> MissingFile]]
    /\ t = [pc |-> "idle", run |-> 0, file |-> "", step |-> 0]
    /\ db = EmptyDb
    /\ ledger = [exists |-> FALSE, rows |-> {}]
    /\ withSnapshotFile \in BOOLEAN
    /\ clock = 0
    /\ l = [p \in Loaders |-> IdleLoader]
    /\ runs = 0
    /\ prev = NoPrev

Init == call = NoCall /\ PipelineInit

\* ------------------------------------------------------------------ transform steps

\* update_clean_csvs_db_aware up to the first save_clean (lines 134-160): pick
\* the snapshot, read it, check the columns, reconcile, build types_df.
T_Start(arg) ==
    /\ TransformRest
    /\ t.run < MaxTransforms
    /\ LET pick == pick_snapshot(arg)
           ok == pick.ok /\ require_columns(RawFolder[pick.file].cols)
       IN  t' = [pc |-> IF ok THEN "saving" ELSE "failed", run |-> t.run + 1,
                 file |-> IF pick.ok THEN pick.file ELSE "", step |-> IF ok THEN 1 ELSE 0]
    /\ UNCHANGED <<call, clean, db, ledger, withSnapshotFile, clock, l, runs, prev>>

\* One write of save_clean: to_csv or to_parquet of the table built so far.
T_Save ==
    /\ t.pc = "saving"
    /\ LET w == SaveOrder[t.step]
           file == [present |-> TRUE, run |-> t.run, rows |-> CleanTable(w.name, t.file, t.run)]
       IN  clean' = [clean EXCEPT ![w.name][w.fmt] = file]
    /\ t' = IF t.step = Len(SaveOrder) THEN [t EXCEPT !.pc = "done", !.step = 0]
            ELSE [t EXCEPT !.step = t.step + 1]
    /\ prev' = NoPrev
    /\ UNCHANGED <<call, db, ledger, withSnapshotFile, clock, l, runs>>

\* The transform dies between two writes (an I/O error, a missing parquet
\* engine, a kill).
T_Fail ==
    /\ t.pc = "saving"
    /\ t' = [t EXCEPT !.pc = "failed", !.step = 0]
    /\ UNCHANGED <<call, clean, db, ledger, withSnapshotFile, clock, l, runs, prev>>

\* ------------------------------------------------------------------ loader steps

\* len(values) != 1 raises ValueError (lines 153, 163).
ExactlyOne(values) == Len(values) = 1

\* Variant of AfterUpsert: the ledger insert follows the third table.
AfterThirdUpsert(idx) == IF idx >= Len(LoadOrder) - 1 THEN "upserted" ELSE "loading"

\* Where load_incremental goes after the upsert of table number idx: the ledger
\* insert follows the last table (lines 177-196).
AfterUpsert(idx) == IF idx = Len(LoadOrder) THEN "upserted" ELSE "loading"

\* load_parquet: [ok, rows]; ok = FALSE for FileNotFoundError.
load_parquet(name) ==
    [ok |-> clean[name].parquet.present, rows |-> clean[name].parquet.rows]

\* The invocation of p ends with an exception.
Abort(p) == [IdleLoader EXCEPT !.pc = "failed"]

\* The invocation of p ends normally: only its outcome and snapshot are kept.
Finish(p, outcome) ==
    [IdleLoader EXCEPT !.pc = outcome, !.snapshot_file = l[p].snapshot_file]

\* History kept when the invocation of p completes for snapshot file leaving d
\* and led: valid while no other invocation is in flight and no clean file is
\* written; n counts the invocations that have completed one right after the
\* other for the same snapshot (2 = two or more).
Completed(p, d, led) ==
    IF \A q \in Loaders \ {p} : ~Active(q)
    THEN [valid |-> TRUE, started |-> FALSE,
          n |-> IF prev.valid /\ prev.started /\ prev.file = l[p].snapshot_file THEN 2 ELSE 1,
          file |-> l[p].snapshot_file, db |-> d, ledger |-> led]
    ELSE NoPrev

\* Slots are interchangeable: p is the first slot that is free.
FirstFree(p) ==
    \E i \in DOMAIN LoaderSlots :
        /\ LoaderSlots[i] = p
        /\ \A j \in 1..(i - 1) : l[LoaderSlots[j]].pc \notin RestPcs

\* load_incremental up to line 143: read the configuration, connect, make
\* sure the ledger table exists.  connected = FALSE: no password, or no server.
L_Start(p, connected) ==
    /\ ~Active(p)
    /\ FirstFree(p)
    /\ runs < MaxRuns
    /\ runs' = runs + 1
    /\ l' = [l EXCEPT ![p] = [IdleLoader EXCEPT !.pc = IF connected THEN "connected" ELSE "failed"]]
    /\ ledger' = IF connected THEN ensure_loaded_snapshots_table(ledger) ELSE ledger
    /\ prev' = IF connected /\ prev.valid /\ ~prev.started
               THEN [prev EXCEPT !.started = TRUE] ELSE NoPrev
    /\ UNCHANGED <<call, clean, t, db, withSnapshotFile, clock>>

\* Lines 146-166: read animals.parquet, require exactly one snapshot_file and
\* exactly one snapshot_date among its non-null values.
L_ReadAnimals(p) ==
    /\ l[p].pc = "connected"
    /\ LET f == load_parquet("animals")
           files == Unique(SelectSeq([i \in DOMAIN f.rows |-> f.rows[i].snapshot_file],
                                     LAMBDA v : v # ""))
           dates == Unique(SelectSeq([i \in DOMAIN f.rows |-> f.rows[i].snapshot_date],
                                     LAMBDA v : v # NaT))
       IN  IF f.ok /\ ExactlyOne(files) /\ ExactlyOne(dates)
           THEN /\ l' = [l EXCEPT ![p].pc = "validated", ![p].animals_df = f.rows,
                                  ![p].snapshot_file = files[1], ![p].snapshot_date = dates[1]]
                /\ prev' = prev
           ELSE /\ l' = [l EXCEPT ![p] = Abort(p)]
                /\ prev' = NoPrev
    /\ UNCHANGED <<call, clean, t, db, ledger, withSnapshotFile, clock, runs>>

\* Lines 168-173: the ledger check.
L_Check(p) ==
    /\ l[p].pc = "validated"
    /\ IF snapshot_already_loaded(ledger.rows, l[p].snapshot_file)
       THEN /\ l' = [l EXCEPT ![p] = Finish(p, "skipped")]
            /\ prev' = Completed(p, db, ledger.rows)
       ELSE /\ l' = [l EXCEPT ![p].pc = "loading", ![p].idx = 1, ![p].checked_at = clock]
            /\ prev' = prev
    /\ UNCHANGED <<call, clean, t, db, ledger, withSnapshotFile, clock, runs>>

\* Lines 177-192: read the next table's file (animals was read at line 146)
\* and upsert it.
L_Upsert(p) ==
    /\ l[p].pc = "loading"
    /\ LET table == LoadOrder[l[p].idx]
           f == IF table = "animals" THEN [ok |-> TRUE, rows |-> l[p].animals_df]
                ELSE load_parquet(table)
           res == ExecUpsert(db, withSnapshotFile, table, f.rows)
       IN  IF f.ok /\ res.ok
           THEN /\ db' = [db EXCEPT ![table] = res.rows]
                /\ l' = [l EXCEPT ![p].written = Append(@, table),
                                  ![p].idx = IF AfterUpsert(@) = "upserted" THEN 0 ELSE @ + 1,
                                  ![p].pc = AfterUpsert(l[p].idx)]
                /\ prev' = prev
           ELSE /\ db' = db
                /\ l' = [l EXCEPT ![p] = Abort(p)]
                /\ prev' = NoPrev
    /\ UNCHANGED <<call, clean, t, ledger, withSnapshotFile, clock, runs>>

\* Lines 195-201: record the snapshot in the ledger and finish.
L_Mark(p) ==
    /\ l[p].pc = "upserted"
    /\ clock' = clock + 1
    /\ ledger' = [ledger EXCEPT !.rows = mark_snapshot_loaded(@, l[p].snapshot_file,
                                                               l[p].snapshot_date, clock + 1)]
    /\ l' = [l EXCEPT ![p] = Finish(p, "loaded")]
    /\ prev' = Completed(p, db, ledger'.rows)
    /\ UNCHANGED <<call, clean, t, db, withSnapshotFile, runs>>

\* The invocation dies at any point after connecting (connection lost, kill).
L_Fail(p) ==
    /\ Active(p)
    /\ l' = [l EXCEPT ![p] = Abort(p)]
    /\ prev' = NoPrev
    /\ UNCHANGED <<call, clean, t, db, ledger, withSnapshotFile, clock, runs>>

Next ==
    \/ \E arg \in SnapshotArgs : T_Start(arg)
    \/ T_Save
    \/ T_Fail
    \/ \E p \in Loaders :
          \/ \E connected \in BOOLEAN : L_Start(p, connected)
          \/ L_ReadAnimals(p)
          \/ L_Check(p)
          \/ L_Upsert(p)
          \/ L_Mark(p)
          \/ L_Fail(p)

Spec == Init /\ [][Next]_vars

\* ------------------------------------------------------------------ properties

LedgerFiles == {r.snapshot_file : r \in ledger.rows}
LoadPathPcs == {"loading", "upserted"}

\* The step is the normal end of the invocation in slot p.
Completes(p) == Active(p) /\ l'[p].pc \in {"skipped", "loaded"}

\* C1.  Idempotence of the loader: when two invocations complete one right
\* after the other for clean files stamped with the same snapshot_file, with
\* no clean file written and nothing else running in between, the second
\* leaves every table and the ledger exactly as the first left them.
C1_Idempotent ==
    [][\A p \in Loaders :
          prev.valid /\ prev.started /\ Completes(p) /\ l[p].snapshot_file = prev.file
             => db' = prev.db /\ ledger'.rows = prev.ledger]_vars

\* Two invocations in a row have completed, the first of them a real load.
C1_Witness ==
    /\ prev.valid /\ prev.n = 2
    /\ prev.db["animals"] # {}
    /\ prev.ledger # {}
    /\ \E p \in Loaders : l[p].pc = "skipped"

\* C2.  The ledger insert is the commit point: the ledger changes only in the
\* step of an invocation that has upserted all four tables, by the one row of
\* its snapshot, and a step that ends an invocation in failure leaves it as it was.
C2_CommitPoint ==
    [][/\ ledger'.rows # ledger.rows =>
            \E p \in Loaders :
               /\ l[p].pc = "upserted"
               /\ l[p].written = <<"pet_types", "breeds", "shelters", "animals">>
               /\ l'[p].pc = "loaded"
               /\ \E r \in ledger'.rows :
                     /\ r.snapshot_file = l[p].snapshot_file
                     /\ ledger'.rows = ledger.rows \cup {r}
       /\ \A p \in Loaders :
            Active(p) /\ l'[p].pc = "failed" => ledger'.rows = ledger.rows]_vars

\* An invocation failed after committing some upserts and the ledger is
\* still empty, while another one has committed a snapshot.
C2_Witness ==
    \E p, q \in Loaders :
        /\ l[p].pc = "failed" /\ db["pet_types"] # {}
        /\ l[q].pc = "loaded" /\ l[q].snapshot_file \in LedgerFiles

\* C3.  Ledger uniqueness under a race: the ledger never holds two rows for
\* one snapshot_file, and no step changes or removes a row it holds.
C3_LedgerUnique ==
    /\ [](\A r1, r2 \in ledger.rows : r1.snapshot_file = r2.snapshot_file => r1 = r2)
    /\ [][\A r \in ledger.rows : r \in ledger'.rows]_vars

\* Both slots passed the ledger check for the same snapshot and both executed
\* the ledger insert.
C3_Witness ==
    /\ \A p \in Loaders : l[p].pc = "loaded"
    /\ l["A"].snapshot_file = l["B"].snapshot_file
    /\ Cardinality(ledger.rows) = 1

IsPrefix(s, u) == Len(s) <= Len(u) /\ s = SubSeq(u, 1, Len(s))

C6_WriteOrder ==
    /\ [](\A p \in Loaders :
            /\ IsPrefix(l[p].written, <<"pet_types", "breeds", "shelters", "animals">>)
            /\ l[p].pc = "upserted" => Len(l[p].written) = 4)
    /\ [][\A tb \in TableNames : \A r \in db'[tb] \ db[tb] :
            \A fk \in ForeignKeys(tb) :
                r[fk[1]] # NULL => \E d \in db[fk[2]] : d[KeyOf(fk[2])] = r[fk[1]]]_vars

\* An invocation has written all four tables and animals rows are in place.
C6_Witness ==
    \E p \in Loaders :
        /\ l[p].pc = "upserted"
        /\ db["animals"] # {} /\ db["breeds"] # {}

\* C7.  ALREADY_LOADED is a no-op: an invocation has written no row before
\* its ledger check, and a check that finds the snapshot in the ledger ends
\* the invocation as skipped leaving every table and the ledger untouched.
C7_AlreadyLoadedNoOp ==
    /\ [](\A p \in Loaders : l[p].pc \in {"connected", "validated", "skipped"} => l[p].written = <<>>)
    /\ [][\A p \in Loaders :
            /\ l[p].pc = "validated"
            /\ l[p].snapshot_file \in LedgerFiles
            /\ l'[p] # l[p]
            => /\ db' = db /\ ledger' = ledger
               /\ l'[p].pc = "skipped" \/ (l'[p].pc = "failed" /\ UNCHANGED <<clean, t>>)]_vars

\* An invocation was skipped although the clean files now carry dimension ids
\* the destination has never seen.
C7_Witness ==
    \E p \in Loaders :
        /\ l[p].pc = "skipped"
        /\ clean["pet_types"].parquet.present
        /\ \E i \in DOMAIN clean["pet_types"].parquet.rows :
              \A d \in db["pet_types"] : d.type_id # clean["pet_types"].parquet.rows[i].type_id
        /\ \E r \in db["animals"] : r.snapshot_file = l[p].snapshot_file

\* ------------------------------------------------------------------ retry of one snapshot

\* The snapshot the retried pipeline handles.
RetrySnapshot == "animals_snapshot_1.csv"

\* The pipeline run by hand for one snapshot, one stage at a time: the
\* transform, then the loader, again after a failure.
RetryNext ==
    \/ (\A p \in Loaders : ~Active(p)) /\ T_Start(RetrySnapshot)
    \/ T_Save
    \/ \E p \in Loaders :
          \/ t.pc = "done" /\ (\A q \in Loaders : ~Active(q)) /\ L_Start(p, TRUE)
          \/ L_ReadAnimals(p)
          \/ L_Check(p)
          \/ L_Upsert(p)
          \/ L_Mark(p)
          \/ L_Fail(p)

RetrySpec == Init /\ [][RetryNext]_vars

\* The rows of table `name` after one uninterrupted transform (run r) and load
\* of `file` into an empty destination.
SingleRun(name, file, r, hasFileCol) ==
    LET recs == df_to_python_records(ensure_str_ids(CleanTable(name, file, r)))
    IN  {Stored(recs[i], TableCols(name, hasFileCol)) : i \in DOMAIN recs}

\* C5 as stated.  Safe retry: whenever the pipeline for the snapshot has run to
\* completion, after whatever failed attempts, the destination is what a
\* single uninterrupted run leaves: the tables of one transform run and one
\* ledger row.
C5_SafeRetry ==
    \A p \in Loaders :
        l[p].pc = "loaded" =>
            /\ \E r \in 1..MaxTransforms :
                  \A n \in TableNames : db[n] = SingleRun(n, RetrySnapshot, r, withSnapshotFile)
            /\ Cardinality(ledger.rows) = 1


\* ------------------------------------------------------------------ direct calls of upsert_table

\* The destination a direct call runs against: one pet type, and T as the
\* rows of `table`.
UTypeId == <<1, 1>>
UDest(table, T) ==
    [EmptyDb EXCEPT !["pet_types"] = {[type_id |-> UTypeId, type |-> <<"D", "o", "g">>]},
                    ![table] = T]

UBreedIds == {<<1, 3>>, <<1, 4>>}
UPetIds == {<<0, 1>>, <<0, 2>>}

\* Rows a table may hold before the call, and rows a DataFrame may carry:
\* breeds with every column, animals with the key column alone.
UStored(table, hasFileCol) ==
    IF table = "breeds"
    THEN [breed_id : UBreedIds, breed : {Pug, Lab}, type_id : {UTypeId, NULL}]
    ELSE {Stored(r, TableCols("animals", hasFileCol)) :
             r \in [pet_id : UPetIds, status : {Adopted, NULL}]}

UIncoming(table) ==
    IF table = "breeds"
    THEN [breed_id : UBreedIds, breed : {Pug, Lab}, type_id : {UTypeId, NULL}]
    ELSE [pet_id : UPetIds \cup {NULL}]

SameKey(a, b, key) == \A k \in key : a[k] = b[k]
UniqueOn(T, key) == \A a, b \in T : SameKey(a, b, key) => a = b
SeqsUpTo(S, n) == UNION {[1..k -> S] : k \in 0..n}

UCalls(hasFileCol) ==
    UNION {{[fn |-> "upsert_table", done |-> FALSE, table |-> tb, before |-> UDest(tb, T),
             rows |-> rs, conflict_cols |-> ConflictCols(tb), ok |-> FALSE, after |-> T] :
               T \in {X \in SUBSET UStored(tb, hasFileCol) : UniqueOn(X, ConflictCols(tb))},
               rs \in SeqsUpTo(UIncoming(tb), MaxRows)} :
           tb \in {"breeds", "animals"}}

UpsertInit == PipelineInit /\ withSnapshotFile /\ call \in UCalls(TRUE)

\* upsert_table(cur, table, df, conflict_cols) called on its own.
U_Call ==
    /\ call.fn = "upsert_table" /\ ~call.done
    /\ LET res == ExecUpsertOn(call.before, withSnapshotFile, call.table, call.rows,
                               call.conflict_cols)
       IN  call' = [call EXCEPT !.done = TRUE, !.ok = res.ok, !.after = res.rows]
    /\ UNCHANGED <<clean, t, db, ledger, withSnapshotFile, clock, l, runs, prev>>

UpsertSpec == UpsertInit /\ [][U_Call]_vars

\* The records of the call as sent to the database.
Sent == df_to_python_records(ensure_str_ids(call.rows))

\* The last record of the call with the key of record i.
LastOf(i) ==
    CHOOSE j \in DOMAIN Sent :
        /\ SameKey(Sent[j], Sent[i], call.conflict_cols)
        /\ \A m \in DOMAIN Sent : SameKey(Sent[m], Sent[i], call.conflict_cols) => m <= j

\* C8.  Upsert semantics: after a call that succeeds, for every incoming row
\* the table holds exactly one row with its key, carrying the non-key values
\* of the last incoming row with that key; rows with other keys are unchanged
\* and no key disappears.  An empty DataFrame, or key-only rows whose keys all
\* exist, leave the table unchanged (and so does a call that raises).
C8_UpsertSemantics ==
    call.fn = "upsert_table" /\ call.done =>
        LET T == call.before[call.table]
            A == call.after
            key == call.conflict_cols
        IN  /\ call.rows = <<>> => call.ok /\ A = T
            /\ ~call.ok => A = T
            /\ call.ok =>
                 /\ \A i \in DOMAIN Sent :
                       LET same == {a \in A : SameKey(a, Sent[i], key)}
                       IN  /\ Cardinality(same) = 1
                           /\ \A a \in same : \A c \in DOMAIN Sent[i] \ key :
                                 a[c] = Sent[LastOf(i)][c]
                 /\ \A x \in T : (\A i \in DOMAIN Sent : ~SameKey(x, Sent[i], key)) => x \in A
                 /\ \A x \in T : \E a \in A : SameKey(a, x, key)
                 /\ (\A i \in DOMAIN Sent :
                        DOMAIN Sent[i] \subseteq key /\ \E x \in T : SameKey(x, Sent[i], key))
                       => A = T

\* A call overwrote a stored breed with the second of two rows for its key
\* and left the breed with the other key alone.
C8_Witness ==
    /\ call.fn = "upsert_table" /\ call.done /\ call.ok /\ call.table = "breeds"
    /\ Len(call.rows) = 2
    /\ call.rows[1].breed_id = call.rows[2].breed_id
    /\ call.rows[1].breed # call.rows[2].breed
    /\ \E x \in call.before["breeds"] :
          x.breed_id = call.rows[1].breed_id /\ x.breed = call.rows[1].breed
    /\ \E x \in call.before["breeds"] : x.breed_id # call.rows[1].breed_id /\ x \in call.after

\* ------------------------------------------------------------------ transform output

\* C9 as stated.  All-or-nothing transform output: the clean folder never
\* holds files of two different runs, and a run that failed has left no file
\* of its own.
C9_AllOrNothing ==
    /\ \A n1, n2 \in TableNames : \A f1, f2 \in {"csv", "parquet"} :
          clean[n1][f1].present /\ clean[n2][f2].present
             => clean[n1][f1].run = clean[n2][f2].run
    /\ t.pc = "failed" =>
          \A n \in TableNames : \A f \in {"csv", "parquet"} : clean[n][f].run # t.run

\* A raw snapshot whose rows carry more than one snapshot_date.
Ambiguous(file) ==
    LET rows == RawFolder[file].rows
    IN  Cardinality({safe_to_date(rows[i].snapshot_date) : i \in DOMAIN rows} \ {NaT}) > 1

\* C10 as stated.  Ambiguous batches are rejected before transformation: the
\* transform writes no output file for an ambiguous snapshot, and no loader
\* writes a row of one.
C10_RejectedBeforeTransform ==
    /\ t.pc = "done" \/ (t.pc = "saving" /\ t.step > 1) => ~Ambiguous(t.file)
    /\ \A p \in Loaders : l[p].written # <<>> => ~Ambiguous(l[p].snapshot_file)


\* ------------------------------------------------------------------ pipeline runs in sequence

\* The pipeline run by hand, one stage at a time and never killed: a transform
\* of any snapshot, then the loader.
PipelineNext ==
    \/ \E arg \in SnapshotArgs : (\A p \in Loaders : ~Active(p)) /\ T_Start(arg)
    \/ T_Save
    \/ \E p \in Loaders :
          \/ t.pc = "done" /\ (\A q \in Loaders : ~Active(q)) /\ L_Start(p, TRUE)
          \/ L_ReadAnimals(p)
          \/ L_Check(p)
          \/ L_Upsert(p)
          \/ L_Mark(p)

PipelineSpec == Init /\ [][PipelineNext]_vars

\* The type names of the pet_types rows with key id.
TypeNames(id) == {x.type : x \in {y \in db["pet_types"] : y.type_id = id}}

\* Every loader invocation so far ended by recording a snapshot of its own.
AllRunsLoaded ==
    /\ \A p \in Loaders : ~Active(p)
    /\ runs > 0
    /\ Cardinality(ledger.rows) = runs

\* C11 as stated.  No duplication across runs: after successful transform and
\* load runs over different snapshots, pet_types holds one row per type name,
\* breeds one row per (type, breed) and shelters one row per
\* (shelter_name, city, state).
C11_NoDuplication ==
    AllRunsLoaded =>
        /\ \A a, b \in db["pet_types"] : a.type = b.type => a = b
        /\ \A a, b \in db["breeds"] :
              a.breed = b.breed /\ TypeNames(a.type_id) = TypeNames(b.type_id) => a = b
        /\ \A a, b \in db["shelters"] :
              a.shelter_name = b.shelter_name /\ a.city = b.city /\ a.state = b.state => a = b


\* ------------------------------------------------------------------ direct calls of the transform

\* Raw records whose status and dates vary (type, breed and shelter fixed), and
\* raw records whose type and breed vary, in one city and in another (status
\* and dates fixed).
URawRows ==
    {RawRow(<<0, 0>>, "Rex", st, ad, <<"D", "o", "g">>, Pug, Bonn, sd) :
        st \in {<<"p", "e", "n", "d", "i", "n", "g">>, <<"a", "d", "o", "p", "t", "e", "d", " ">>},
        ad \in {"", "2025-05-20", "n/a"},
        sd \in {"2025-06-01", "n/a"}}
    \cup
    {RawRow(<<0, 0>>, "Bo", <<"A", "v", "a", "i", "l", "a", "b", "l", "e">>, "", ty, br, Bonn,
            "2025-06-01") :
        ty \in {<<" ", "d", "o", "g">>, <<"C", "A", "T">>, NaN},
        br \in {<<"P", "u", "g", " ">>, Lab, NaN}}
    \cup
    {RawRow(<<0, 0>>, "Bo", <<"A", "v", "a", "i", "l", "a", "b", "l", "e">>, "", ty, Lab, Leon,
            "2025-06-01") :
        ty \in {<<" ", "d", "o", "g">>, <<"C", "A", "T">>, NaN}}

\* A batch as read_csv returns it: the i-th record gets the i-th pet_id.
UBatch(recs) == [i \in DOMAIN recs |-> [recs[i] EXCEPT !.pet_id = <<0, i>>]]

UBatchFile == "animals_snapshot_9.csv"

TransformInit ==
    /\ PipelineInit
    /\ withSnapshotFile
    /\ call \in {[fn |-> "transform", done |-> FALSE, cols |-> RequiredCols,
                  rows |-> UBatch(recs), file |-> UBatchFile, run |-> 1,
                  out |-> [ok |-> FALSE]] : recs \in SeqsUpTo(URawRows, MaxBatch)}

\* update_clean_csvs_db_aware on one batch, up to the tables it passes to
\* save_clean (lines 138-215); breeds_df is kept with its type column.
T_Call ==
    /\ call.fn = "transform" /\ ~call.done
    /\ call' =
         [call EXCEPT
            !.done = TRUE,
            !.out = IF ~require_columns(call.cols) THEN [ok |-> FALSE]
                    ELSE LET pets == apply_data_quality_rules(call.rows)
                         IN  [ok |-> TRUE, pets |-> pets,
                              breeds_df |-> BreedsDf(pets, call.run),
                              pet_types |-> BuildTable("pet_types", call.rows, call.file, call.run),
                              breeds |-> BuildTable("breeds", call.rows, call.file, call.run),
                              shelters |-> BuildTable("shelters", call.rows, call.file, call.run),
                              animals |-> BuildTable("animals", call.rows, call.file, call.run)]]
    /\ UNCHANGED <<clean, t, db, ledger, withSnapshotFile, clock, l, runs, prev>>

TransformSpec == TransformInit /\ [][T_Call]_vars

\* The transform was called on a batch and built its tables.
Built == call.fn = "transform" /\ call.done /\ call.out.ok

\* C12.  Breed-to-type integrity within a run: every breeds row carries the
\* type_id of the pet_types row of the same run that bears the breed's
\* normalized type; none has a null or dangling type_id.
C12_BreedTypeIntegrity ==
    Built =>
        /\ Len(call.out.breeds) = Len(call.out.breeds_df)
        /\ \A i \in DOMAIN call.out.breeds_df :
              LET b == call.out.breeds_df[i]
              IN  /\ call.out.breeds[i] =
                        [breed |-> b.breed, breed_id |-> b.breed_id, type_id |-> b.type_id]
                  /\ b.type_id # NULL
                  /\ \E j \in DOMAIN call.out.pet_types :
                        /\ call.out.pet_types[j].type = b.type
                        /\ call.out.pet_types[j].type_id = b.type_id
                  /\ \E k \in DOMAIN call.out.pets :
                        call.out.pets[k].type = b.type /\ call.out.pets[k].breed = b.breed

\* A batch with a missing type and a missing breed: both are retained as
\* text and the breed row resolves to the type row built for that text.
C12_Witness ==
    /\ Built
    /\ \E i \in DOMAIN call.rows : call.rows[i].type = NaN /\ call.rows[i].breed = NaN
    /\ \E i \in DOMAIN call.out.breeds_df :
          /\ call.out.breeds_df[i].type = <<"N", "a", "n">>
          /\ call.out.breeds_df[i].breed = <<"n", "a", "n">>
    /\ Len(call.out.pet_types) = 2


\* C13.  The fact build preserves rows and resolves keys: animals has one row
\* per input row, in input order, each stamped with the snapshot file name, and
\* each row's type_id, breed_id and shelter_id is the id the same run gave to
\* the row's type, (type, breed) pair and (shelter_name, city, state) tuple.
C13_FactBuild ==
    Built =>
        /\ Len(call.out.animals) = Len(call.rows)
        /\ \A i \in DOMAIN call.out.animals :
              LET a == call.out.animals[i]
                  p == call.out.pets[i]
              IN  /\ a.pet_id = call.rows[i].pet_id
                  /\ a.snapshot_file = call.file
                  /\ \E j \in DOMAIN call.out.pet_types :
                        /\ call.out.pet_types[j].type = p.type
                        /\ call.out.pet_types[j].type_id = a.type_id
                  /\ \E j \in DOMAIN call.out.breeds_df :
                        /\ call.out.breeds_df[j].type = p.type
                        /\ call.out.breeds_df[j].breed = p.breed
                        /\ call.out.breeds_df[j].breed_id = a.breed_id
                  /\ \E j \in DOMAIN call.out.shelters :
                        /\ call.out.shelters[j].shelter_name = p.shelter_name
                        /\ call.out.shelters[j].city = p.city
                        /\ call.out.shelters[j].state = p.state
                        /\ call.out.shelters[j].shelter_id = a.shelter_id

\* Two input rows of one type in shelters of different cities: two fact rows
\* sharing the type's id and differing in shelter_id.
C13_Witness ==
    /\ Built
    /\ Len(call.rows) = 2
    /\ Len(call.out.animals) = 2
    /\ call.out.pets[1].type = call.out.pets[2].type
    /\ call.out.pets[1].city # call.out.pets[2].city
    /\ call.out.animals[1].type_id = call.out.animals[2].type_id
    /\ call.out.animals[1].shelter_id # call.out.animals[2].shelter_id


\* The status of a raw record as normalized (lines 94), and its dates as
\* parsed (lines 90-91), before the reconciliation rules.
NormStatus(r) == Title(Strip(AsStr(r.status)))
ParsedAdopted(r) == safe_to_date(r.adopted_date)
ParsedSnapshot(r) == safe_to_date(r.snapshot_date)

\* C14.  Reconciliation precedence: a record whose adopted_date parses and
\* whose normalized status is not Adopted ends with status Adopted and keeps
\* its own adopted_date; the backfill never replaces it by snapshot_date.
C14_DateOverLabel ==
    Built =>
        \A i \in DOMAIN call.rows :
            ParsedAdopted(call.rows[i]) # NaT /\ NormStatus(call.rows[i]) # Adopted
            => /\ call.out.pets[i].status = Adopted
               /\ call.out.pets[i].adopted_date = ParsedAdopted(call.rows[i])

\* A record "pending" with adopted_date 2025-05-20 and snapshot_date 2025-06-01.
C14_Witness ==
    /\ Built
    /\ \E i \in DOMAIN call.rows :
          /\ NormStatus(call.rows[i]) = <<"P", "e", "n", "d", "i", "n", "g">>
          /\ ParsedAdopted(call.rows[i]) = 20250520
          /\ ParsedSnapshot(call.rows[i]) = 20250601
          /\ call.out.pets[i].status = Adopted
          /\ call.out.pets[i].adopted_date = 20250520

\* C15.  Reconciliation backfill: a record whose normalized status is Adopted
\* and whose adopted_date is empty or unparsable gets its snapshot_date as
\* adopted_date; the adopted_date of every other record is what was parsed;
\* and where snapshot_date parsed, status is Adopted exactly when
\* adopted_date is non-null.
C15_Backfill ==
    Built =>
        \A i \in DOMAIN call.rows :
            LET r == call.rows[i]
                p == call.out.pets[i]
            IN  /\ p.adopted_date =
                      IF NormStatus(r) = Adopted /\ ParsedAdopted(r) = NaT
                      THEN ParsedSnapshot(r) ELSE ParsedAdopted(r)
                /\ ParsedSnapshot(r) # NaT => (p.status = Adopted <=> p.adopted_date # NaT)

\* A record "adopted " whose adopted_date is unparsable, snapshot 2025-06-01.
C15_Witness ==
    /\ Built
    /\ \E i \in DOMAIN call.rows :
          /\ NormStatus(call.rows[i]) = Adopted
          /\ call.rows[i].adopted_date = "n/a"
          /\ call.out.pets[i].status = Adopted
          /\ call.out.pets[i].adopted_date = 20250601


\* ------------------------------------------------------------------ two loads of one snapshot

\* The transform runs to completion, then two invocations of the loader run
\* side by side over the clean files it left; nothing is killed.
RaceNext ==
    \/ \E arg \in SnapshotArgs : runs = 0 /\ T_Start(arg)
    \/ T_Save
    \/ \E p \in Loaders :
          \/ t.pc = "done" /\ L_Start(p, TRUE)
          \/ L_ReadAnimals(p)
          \/ L_Check(p)
          \/ L_Upsert(p)
          \/ L_Mark(p)

RaceSpec == Init /\ [][RaceNext]_vars

\* The ledger rows without their loaded_at timestamp.
LedgerEntries(led) ==
    {[snapshot_file |-> r.snapshot_file, snapshot_date |-> r.snapshot_date] : r \in led}

\* The ledger entries after one uninterrupted transform (run r) and load of
\* `file` into an empty destination (lines 160-166, 196).
SingleRunLedger(file, r) ==
    LET rows == CleanTable("animals", file, r)
    IN  {[snapshot_file |-> file, snapshot_date |-> d] :
            d \in {rows[i].snapshot_date : i \in DOMAIN rows} \ {NaT}}

\* Both invocations have passed the ledger check (line 169).
BothPassedCheck == \A p \in Loaders : l[p].pc \in LoadPathPcs \cup {"loaded"}

\* When both invocations have completed on the load path (their positions
\* ls), the tables d and the ledger rows led are what a single invocation
\* alone leaves.
Converged(ls, d, led) ==
    (\A p \in Loaders : ls[p].pc = "loaded") =>
        /\ \A n \in TableNames : d[n] = SingleRun(n, t.file, t.run, withSnapshotFile)
        /\ LedgerEntries(led) = SingleRunLedger(t.file, t.run)
        /\ Cardinality(led) = 1

\* C16 as stated.  Convergence of concurrent loads: when both invocations
\* have passed the ledger check for the snapshot, neither fails, and once
\* both have completed the four tables and the ledger hold what a single
\* invocation alone leaves.
C16_Convergence ==
    [][BothPassedCheck
          => /\ \A p \in Loaders : l'[p].pc # "failed"
             /\ Converged(l', db', ledger'.rows)]_vars

\* C16 on a destination whose animals table has the snapshot_file column:
\* there the two invocations always complete and converge.
C16_ConvergenceWithFileColumn ==
    [][withSnapshotFile /\ BothPassedCheck
          => /\ \A p \in Loaders : l'[p].pc # "failed"
             /\ Converged(l', db', ledger'.rows)]_vars

\* Both invocations passed the ledger check before either recorded the
\* snapshot, and both have completed.
C16_Witness ==
    /\ withSnapshotFile
    /\ \A p \in Loaders : l[p].pc = "loaded"
    /\ Cardinality(db["animals"]) = 3
    /\ Cardinality(ledger.rows) = 1


\* ------------------------------------------------------------------ additive destination

\* The keys present in a table.
Keys(table, d) == {r[KeyOf(table)] : r \in d[table]}

\* The records invocation p sends in its next upsert_table call (lines 177-189).
Incoming(p) ==
    LET table == LoadOrder[l[p].idx]
    IN  ensure_str_ids(IF table = "animals" THEN l[p].animals_df ELSE load_parquet(table).rows)

\* C17.  Additive destination: in every step of every run (complete, failed
\* part-way or concurrent) the keys present in each table and in the ledger
\* only grow, no ledger row is modified or removed, and a table row changes
\* only when an invocation upserts a record with that row's conflict key.
C17_Additive ==
    [][/\ \A n \in TableNames : Keys(n, db) \subseteq Keys(n, db')
       /\ ledger.rows \subseteq ledger'.rows
       /\ \A n \in TableNames : \A r \in db[n] \ db'[n] :
             \E p \in Loaders :
                /\ l[p].pc = "loading" /\ LoadOrder[l[p].idx] = n
                /\ l'[p].pc # "failed"
                /\ \E i \in DOMAIN Incoming(p) : Incoming(p)[i][KeyOf(n)] = r[KeyOf(n)]]_vars

\* A run failed part-way after writing animals rows of a snapshot that is not
\* in the ledger, next to the ledger row of a snapshot loaded before.
C17_Witness ==
    /\ ledger.rows # {}
    /\ \E p \in Loaders : l[p].pc = "failed"
    /\ \E r \in db["animals"] : r.snapshot_file \notin LedgerFiles
    /\ \E r \in db["animals"] : r.snapshot_file \in LedgerFiles


\* ------------------------------------------------------------------ dimension build

\* The values of column c in the rows of a frame.
Column(rows, c) == {rows[i][c] : i \in DOMAIN rows}

\* The rows of a frame restricted to the columns cols.
Project(rows, cols) == {[c \in cols |-> rows[i][c]] : i \in DOMAIN rows}

\* The ids a run gives in table `name`.
IdsOf(name, rows) == Column(rows, KeyOf(name))

\* C18.  Dimension deduplication is structural: in one run pet_types has one
\* row per distinct normalized type, breeds one row per distinct (type, breed)
\* pair and shelters one row per distinct (shelter_name, city, state) tuple,
\* each under an id of its own; a second run over the same input gives the
\* same row counts in all four outputs, under other identifiers.
C18_StructuralDedup ==
    Built =>
        LET o == call.out
            ShelterCols == {"shelter_name", "city", "state"}
            again(n) == BuildTable(n, call.rows, call.file, call.run + 1)
        IN  /\ Column(o.pet_types, "type") = Column(o.pets, "type")
            /\ Len(o.pet_types) = Cardinality(Column(o.pets, "type"))
            /\ Cardinality(IdsOf("pet_types", o.pet_types)) = Len(o.pet_types)
            /\ Project(o.breeds_df, {"type", "breed"}) = Project(o.pets, {"type", "breed"})
            /\ Len(o.breeds_df) = Cardinality(Project(o.pets, {"type", "breed"}))
            /\ Len(o.breeds) = Len(o.breeds_df)
            /\ Cardinality(IdsOf("breeds", o.breeds)) = Len(o.breeds)
            /\ Project(o.shelters, ShelterCols) = Project(o.pets, ShelterCols)
            /\ Len(o.shelters) = Cardinality(Project(o.pets, ShelterCols))
            /\ Cardinality(IdsOf("shelters", o.shelters)) = Len(o.shelters)
            /\ \A n \in TableNames : Len(again(n)) = Len(o[n])
            /\ \A n \in TableNames \ {"animals"} :
                  IdsOf(n, again(n)) \cap IdsOf(n, o[n]) = {}

\* Two records of one shelter name in two cities whose types differ only in
\* spacing and case: one pet_types row, two shelters rows.
C18_Witness ==
    /\ Built
    /\ Len(call.rows) = 2
    /\ call.rows[1].type # call.rows[2].type
    /\ call.rows[1].shelter_name = call.rows[2].shelter_name
    /\ call.rows[1].city # call.rows[2].city
    /\ Len(call.out.pet_types) = 1
    /\ Len(call.out.shelters) = 2


\* ------------------------------------------------------------------ schema failure

\* The snapshot the transform picked lacks a required column.
LacksColumn == t.file # "" /\ ~(RequiredCols \subseteq RawFolder[t.file].cols)

\* C19.  Schema failure writes nothing: a run whose input lacks a required
\* column never reaches a save_clean call, and when it has failed none of the
\* eight output files is its own.
C19_SchemaFailureWritesNothing ==
    /\ t.pc = "saving" => ~LacksColumn
    /\ t.pc = "failed" /\ LacksColumn =>
          \A n \in TableNames : \A f \in {"csv", "parquet"} : clean[n][f].run # t.run

\* The transform has failed on the snapshot without the breed column, with the
\* eight files of an earlier run in the clean folder.
C19_Witness ==
    /\ t.pc = "failed"
    /\ LacksColumn
    /\ "breed" \notin RawFolder[t.file].cols
    /\ \A n \in TableNames : \A f \in {"csv", "parquet"} :
          clean[n][f].present /\ clean[n][f].run < t.run


\* ------------------------------------------------------------------ freshly provisioned destination

\* The destination as reset_db.py leaves it (lines 13-58).
FreshlyProvisioned == ~withSnapshotFile

\* C20 as stated.  A load against a freshly provisioned destination reaches
\* LOADED: on the tables reset_db created, an invocation that loads the
\* output of a successful transform inserts only columns the table has and
\* never fails on its way to the ledger insert.
C20_FreshDestinationLoads ==
    [][FreshlyProvisioned =>
          \A p \in Loaders :
              l[p].pc = "loading" =>
                 /\ \A i \in DOMAIN Incoming(p) :
                       DOMAIN Incoming(p)[i] \subseteq
                          TableCols(LoadOrder[l[p].idx], withSnapshotFile)
                 /\ l'[p].pc # "failed"]_vars

\* The load of a successfully transformed snapshot has failed on the tables
\* of reset_db: the three dimensions are written, animals and the ledger are
\* empty.
C20_Witness ==
    /\ FreshlyProvisioned
    /\ t.pc = "done"
    /\ \E p \in Loaders : l[p].pc = "failed"
    /\ db["pet_types"] # {} /\ db["breeds"] # {} /\ db["shelters"] # {}
    /\ db["animals"] = {}
    /\ ledger.rows = {}


\* ------------------------------------------------------------------ destination resets

\* reset_db.py: DROP TABLE IF EXISTS ... CASCADE for animals, breeds, pet_types
\* and shelters (lines 13-16), then the four CREATE TABLE statements (lines
\* 19-55).  loaded_snapshots is not among the dropped tables.
ResetDb ==
    /\ \A p \in Loaders : ~Active(p)
    /\ db' = EmptyDb
    /\ withSnapshotFile' = FALSE
    /\ prev' = NoPrev
    /\ UNCHANGED <<call, clean, t, ledger, clock, l, runs>>

\* The pipeline run by hand, one stage at a time, with resets of the
\* destination between loader runs.
ResetNext ==
    \/ PipelineNext
    \/ ResetDb

ResetSpec == Init /\ [][ResetNext]_vars

\* The pet_ids of the snapshot raw/<file>, as the loader sends them.
PetIdsOf(file) ==
    {AsStrId(RawFolder[file].rows[i].pet_id) : i \in DOMAIN RawFolder[file].rows}

\* C21 as stated.  A ledger row implies the data is present: whenever
\* loaded_snapshots holds snapshot_file S, animals holds a row for every
\* pet_id of S.
C21_LedgerImpliesData ==
    \A r \in ledger.rows :
        \A id \in PetIdsOf(r.snapshot_file) : \E a \in db["animals"] : a.pet_id = id

\* After a reset an invocation has skipped a snapshot as already loaded while
\* animals is empty.
C21_Witness ==
    /\ db["animals"] = {}
    /\ \E p \in Loaders :
          /\ l[p].pc = "skipped"
          /\ l[p].snapshot_file \in LedgerFiles
          /\ PetIdsOf(l[p].snapshot_file) # {}


\* ------------------------------------------------------------------ referential integrity

\* Value v of a referencing column is null or the key of a row of `table`.
Resolves(v, table) == v = NULL \/ v \in Keys(table, db)

\* C22.  Destination referential integrity: in every reachable state every
\* non-null breeds.type_id is the key of a pet_types row and every non-null
\* animals.type_id, breed_id and shelter_id is the key of a row of its
\* dimension table.
C22_ReferentialIntegrity ==
    /\ \A b \in db["breeds"] : Resolves(b.type_id, "pet_types")
    /\ \A a \in db["animals"] :
          /\ Resolves(a.type_id, "pet_types")
          /\ Resolves(a.breed_id, "breeds")
          /\ Resolves(a.shelter_id, "shelters")

\* A transform rewrote the clean files after an invocation read
\* animals.parquet: the invocation has upserted the dimensions of the later
\* run and is about to send animals rows whose type_id names no pet_types row.
C22_Witness ==
    \E p \in Loaders :
        /\ l[p].pc = "loading"
        /\ LoadOrder[l[p].idx] = "animals"
        /\ db["pet_types"] # {}
        /\ \E i \in DOMAIN l[p].animals_df :
              l[p].animals_df[i].type_id \notin Keys("pet_types", db)

===========================================================================
